---- MODULE Spec2Model ----
(***************************************************************************)
(* Model of ceos-seo/odc-colab:                                            *)
(*   earthengine.py  Datacube.__init__, Datacube.load,                     *)
(*                   Datacube._refresh_credentials                         *)
(*   odc_colab.py    odc_colab_init, populate_db                           *)
(* The program is single-threaded; pc is the position of the one thread.   *)
(***************************************************************************)
EXTENDS Integers, Sequences, FiniteSets, TLC

VARIABLES
    pc,          \* position of the running call
    environ,     \* os.environ restricted to the keys the code touches
    pathExists,  \* Path(credentials).exists() at construction
    credentials, \* self.credentials: [kind, token]
    request,     \* self.request: "unset", "None" or "Request"
    ctor,        \* calls made by Datacube.__init__, by callee
    args,        \* arguments of the load call in progress / last made
    depth,       \* number of nested load frames
    history,     \* engine calls and refreshes of the current load, in order
    refreshRet,  \* what the last _refresh_credentials call did
    outcome,     \* how the last top-level call ended
    entry,       \* environ and credentials when the current call was entered
    kwargs,      \* odc_colab_init: the **kwargs of the call
    flags,       \* odc_colab_init: its keyword flags
    cmds,        \* odc_colab_init: shell commands run so far
    fs,          \* populate_db: the file system
    path,        \* populate_db: the path argument
    runs         \* populate_db: what the calls so far did

dcVars == <<pathExists, credentials, request, ctor, args, depth, history,
            refreshRet, entry>>
initVars == <<kwargs, flags, cmds>>
popVars == <<fs, path, runs>>
vars == <<pc, environ, outcome, dcVars, initVars, popVars>>

----
\* Bounds of the model
MaxDepth == 4
MaxCalls == 3

\* Values
Queries == {"q1", "q2"}
Results == {"ds1", "ds2"}
Tokens  == {"tok1", "tok2"}
Marker  == "\"UNAUTHENTICATED\""
\* an error message is a sequence of words
Messages == {<<"HTTP 401", Marker>>, <<"UNAUTHENTICATED">>, <<"HTTP 404">>}
CREDENTIALS == "credentials.json"
CA_BUNDLE_DEFAULT == "/etc/ssl/certs/ca-certificates.crt"

EnvKeys == {"GOOGLE_APPLICATION_CREDENTIALS", "EEDA_BEARER", "CURL_CA_BUNDLE",
            "AWS_NO_SIGN_REQUEST", "DATACUBE_CONFIG_PATH", "DATACUBE_DB_URL",
            "USER_VAR"}

\* what super().load can do: return a dataset or raise; rasterio raises its
\* RasterioIOError with the message as args[0]
EngineOutcomes ==
    [kind : {"ok"}, type : {"Dataset"}, eargs : {<<r>> : r \in Results}]
    \cup [kind : {"raise"}, type : {"RasterioIOError"},
          eargs : {<<m>> : m \in Messages}]
    \cup [kind : {"raise"}, type : {"ValueError"},
          eargs : {<<>>} \cup {<<m>> : m \in Messages}]

NoOutcome == [kind |-> "none", type |-> "none", eargs |-> <<>>]
Returned(v) == [kind |-> "returned", type |-> "value", eargs |-> <<v>>]
Raised(t, a) == [kind |-> "raised", type |-> t, eargs |-> a]

\* str.find: index of the first occurrence of w in msg, -1 when there is none
Find(msg, w) ==
    IF \E i \in DOMAIN msg : msg[i] = w
    THEN (CHOOSE i \in DOMAIN msg : msg[i] = w /\ \A j \in 1..(i-1) : msg[j] # w) - 1
    ELSE -1

\* os.environ.update(k=v)
EnvUpdate(env, k, v) == [env EXCEPT ![k] = v]

CtorZero == [Authenticate |-> 0, Initialize |-> 0, ServiceAccountCredentials |-> 0,
             get_persistent_credentials |-> 0, Request |-> 0, refresh |-> 0,
             superInit |-> 0]

EngineEvent(q, o) == [ev |-> "engine", arg |-> q, out |-> o]
RefreshEvent(r)   == [ev |-> "refresh", arg |-> r, out |-> NoOutcome]

----
\* _refresh_credentials that publishes the token also without a handle
RefreshCredentials_PublishesAnyway(ok, tok) ==
    IF request = "Request"
    THEN IF ok
         THEN /\ credentials' = [credentials EXCEPT !.token = tok]
              /\ environ' = EnvUpdate(environ, "EEDA_BEARER", tok)
              /\ refreshRet' = "True"
         ELSE /\ UNCHANGED <<credentials, environ>>
              /\ refreshRet' = "raised"
    ELSE /\ UNCHANGED credentials
         /\ environ' = EnvUpdate(environ, "EEDA_BEARER", credentials.token)
         /\ refreshRet' = "False"

\* _refresh_credentials without "if self.request:": it refreshes in either mode
RefreshCredentials_NoHandleCheck(ok, tok) ==
    IF ok
    THEN /\ credentials' = [credentials EXCEPT !.token = tok]
         /\ environ' = EnvUpdate(environ, "EEDA_BEARER", tok)
         /\ refreshRet' = "True"
    ELSE /\ UNCHANGED <<credentials, environ>>
         /\ refreshRet' = "raised"

\* Datacube._refresh_credentials; ok and tok are what credentials.refresh does
RefreshCredentials(ok, tok) ==
    IF request = "Request"
    THEN IF ok
         THEN /\ credentials' = [credentials EXCEPT !.token = tok]
              /\ environ' = EnvUpdate(environ, "EEDA_BEARER", tok)
              /\ refreshRet' = "True"
         ELSE /\ UNCHANGED <<credentials, environ>>
              /\ refreshRet' = "raised"
    ELSE /\ UNCHANGED <<credentials, environ>>
         /\ refreshRet' = "False"

\* a step of __init__ raises: construction ends without an object
CtorRaise(callee) ==
    /\ pc' = "ctor_raised"
    /\ outcome' = Raised(callee, <<>>)

\* self.ee = import_module('ee')
CtorImport ==
    /\ pc = "import"
    /\ \E ok \in BOOLEAN :
         IF ok THEN pc' = "branch" /\ UNCHANGED outcome
               ELSE CtorRaise("import_module")
    /\ UNCHANGED <<environ, pathExists, credentials, request, ctor, args, depth,
                   history, refreshRet, entry>>
    /\ UNCHANGED <<initVars, popVars>>

\* the branch of __init__ taken the wrong way round
CtorBranch_Inverted ==
    /\ pc = "branch"
    /\ pc' = IF pathExists THEN "authenticate" ELSE "sa_creds"
    /\ UNCHANGED <<environ, pathExists, credentials, request, ctor, args, depth,
                   history, refreshRet, outcome, entry>>
    /\ UNCHANGED <<initVars, popVars>>

\* if Path(credentials).exists():
CtorBranch ==
    /\ pc = "branch"
    /\ pc' = IF pathExists THEN "sa_creds" ELSE "authenticate"
    /\ UNCHANGED <<environ, pathExists, credentials, request, ctor, args, depth,
                   history, refreshRet, outcome, entry>>
    /\ UNCHANGED <<initVars, popVars>>

\* os.environ.update(GOOGLE_APPLICATION_CREDENTIALS=credentials)
\* self.credentials = self.ee.ServiceAccountCredentials('', key_file=credentials)
CtorServiceAccountCredentials ==
    /\ pc = "sa_creds"
    /\ environ' = EnvUpdate(environ, "GOOGLE_APPLICATION_CREDENTIALS", CREDENTIALS)
    /\ ctor' = [ctor EXCEPT !.ServiceAccountCredentials = @ + 1]
    /\ \E ok \in BOOLEAN :
         IF ok THEN /\ credentials' = [kind |-> "service", token |-> "None"]
                    /\ pc' = "sa_init"
                    /\ UNCHANGED outcome
               ELSE /\ CtorRaise("ServiceAccountCredentials")
                    /\ UNCHANGED credentials
    /\ UNCHANGED <<pathExists, request, args, depth, history, refreshRet, entry>>
    /\ UNCHANGED <<initVars, popVars>>

\* self.ee.Initialize(self.credentials); self.request = None
CtorServiceAccountInitialize ==
    /\ pc = "sa_init"
    /\ ctor' = [ctor EXCEPT !.Initialize = @ + 1]
    /\ \E ok \in BOOLEAN :
         IF ok THEN /\ request' = "None"
                    /\ pc' = "super_init"
                    /\ UNCHANGED outcome
               ELSE /\ CtorRaise("Initialize")
                    /\ UNCHANGED request
    /\ UNCHANGED <<environ, pathExists, credentials, args, depth, history,
                   refreshRet, entry>>
    /\ UNCHANGED <<initVars, popVars>>

\* self.ee.Authenticate()
CtorAuthenticate ==
    /\ pc = "authenticate"
    /\ ctor' = [ctor EXCEPT !.Authenticate = @ + 1]
    /\ \E ok \in BOOLEAN :
         IF ok THEN pc' = "initialize" /\ UNCHANGED outcome
               ELSE CtorRaise("Authenticate")
    /\ UNCHANGED <<environ, pathExists, credentials, request, args, depth,
                   history, refreshRet, entry>>
    /\ UNCHANGED <<initVars, popVars>>

\* self.ee.Initialize()
CtorInitialize ==
    /\ pc = "initialize"
    /\ ctor' = [ctor EXCEPT !.Initialize = @ + 1]
    /\ \E ok \in BOOLEAN :
         IF ok THEN pc' = "get_creds" /\ UNCHANGED outcome
               ELSE CtorRaise("Initialize")
    /\ UNCHANGED <<environ, pathExists, credentials, request, args, depth,
                   history, refreshRet, entry>>
    /\ UNCHANGED <<initVars, popVars>>

\* self.credentials = self.ee.data.get_persistent_credentials()
CtorGetPersistentCredentials ==
    /\ pc = "get_creds"
    /\ ctor' = [ctor EXCEPT !.get_persistent_credentials = @ + 1]
    /\ \E ok \in BOOLEAN :
         IF ok THEN /\ credentials' = [kind |-> "persistent", token |-> "None"]
                    /\ pc' = "mk_request"
                    /\ UNCHANGED outcome
               ELSE /\ CtorRaise("get_persistent_credentials")
                    /\ UNCHANGED credentials
    /\ UNCHANGED <<environ, pathExists, request, args, depth, history,
                   refreshRet, entry>>
    /\ UNCHANGED <<initVars, popVars>>

\* self.request = import_module('google.auth.transport.requests').Request()
CtorRequest ==
    /\ pc = "mk_request"
    /\ ctor' = [ctor EXCEPT !.Request = @ + 1]
    /\ \E ok \in BOOLEAN :
         IF ok THEN /\ request' = "Request"
                    /\ pc' = "ctor_refresh"
                    /\ UNCHANGED outcome
               ELSE /\ CtorRaise("Request")
                    /\ UNCHANGED request
    /\ UNCHANGED <<environ, pathExists, credentials, args, depth, history,
                   refreshRet, entry>>
    /\ UNCHANGED <<initVars, popVars>>

\* __init__ without its call of _refresh_credentials
CtorRefresh_Skipped ==
    /\ pc = "ctor_refresh"
    /\ pc' = "super_init"
    /\ UNCHANGED <<environ, credentials, refreshRet, ctor, outcome>>
    /\ UNCHANGED <<pathExists, request, args, depth, history, entry>>
    /\ UNCHANGED <<initVars, popVars>>

\* self._refresh_credentials()
CtorRefresh ==
    /\ pc = "ctor_refresh"
    /\ ctor' = [ctor EXCEPT !.refresh = @ + 1]
    /\ \E ok \in BOOLEAN, tok \in Tokens :
         /\ RefreshCredentials(ok, tok)
         /\ IF refreshRet' = "raised"
            THEN CtorRaise("refresh")
            ELSE pc' = "super_init" /\ UNCHANGED outcome
    /\ UNCHANGED <<pathExists, request, args, depth, history, entry>>
    /\ UNCHANGED <<initVars, popVars>>

\* super().__init__(*args, **kwargs)
CtorSuperInit ==
    /\ pc = "super_init"
    /\ ctor' = [ctor EXCEPT !.superInit = @ + 1]
    /\ \E ok \in BOOLEAN :
         IF ok THEN pc' = "ready" /\ UNCHANGED outcome
               ELSE CtorRaise("datacube.Datacube.__init__")
    /\ UNCHANGED <<environ, pathExists, credentials, request, args, depth,
                   history, refreshRet, entry>>
    /\ UNCHANGED <<initVars, popVars>>

----
\* Datacube.load is entered with arguments q
CallLoad(q) ==
    /\ pc = "ready"
    /\ pc' = "load_try"
    /\ args' = q
    /\ depth' = 1
    /\ history' = <<>>
    /\ outcome' = NoOutcome
    /\ entry' = [environ |-> environ, credentials |-> credentials]
    /\ UNCHANGED <<environ, pathExists, credentials, request, ctor, refreshRet>>
    /\ UNCHANGED <<initVars, popVars>>

\* the call ends, in whichever frame, with outcome o; return self.load(...) and
\* an exception raised inside the except clause both pass through every frame
LoadEnd(o) ==
    /\ pc' = "ready"
    /\ depth' = 0
    /\ outcome' = o

\* load without the "return" in front of super().load(...)
LoadTry_DropsResult ==
    /\ pc = "load_try"
    /\ \E o \in EngineOutcomes :
         /\ history' = Append(history, EngineEvent(args, o))
         /\ IF o.kind = "ok"
            THEN LoadEnd(Returned("None"))
            ELSE IF o.type = "RasterioIOError"
                 THEN IF Find(o.eargs[1], Marker) # -1
                      THEN pc' = "load_except" /\ UNCHANGED <<depth, outcome>>
                      ELSE LoadEnd(Returned("None"))
                 ELSE LoadEnd(Raised(o.type, o.eargs))
    /\ UNCHANGED <<environ, pathExists, credentials, request, ctor, args,
                   refreshRet, entry>>
    /\ UNCHANGED <<initVars, popVars>>

\* try: return super().load(*args, **kwargs), and the except clauses
\* up to the call of self._refresh_credentials()
LoadTry ==
    /\ pc = "load_try"
    /\ \E o \in EngineOutcomes :
         /\ history' = Append(history, EngineEvent(args, o))
         /\ IF o.kind = "ok"
            THEN LoadEnd(Returned(o.eargs[1]))
            ELSE IF o.type = "RasterioIOError"
                 THEN IF Find(o.eargs[1], Marker) # -1
                      THEN pc' = "load_except" /\ UNCHANGED <<depth, outcome>>
                      ELSE LoadEnd(Returned("None"))
                 ELSE LoadEnd(Raised(o.type, o.eargs))
    /\ UNCHANGED <<environ, pathExists, credentials, request, ctor, args,
                   refreshRet, entry>>
    /\ UNCHANGED <<initVars, popVars>>

\* the exception the frame at the top of the stack is handling
Handled == history[Len(history)].out

\* the retry made with other arguments than the call's
LoadExcept_OtherArgs ==
    /\ pc = "load_except"
    /\ \E ok \in BOOLEAN, tok \in Tokens :
         /\ RefreshCredentials(ok, tok)
         /\ history' = Append(history, RefreshEvent(refreshRet'))
         /\ IF refreshRet' = "True"
            THEN /\ depth < MaxDepth
                 /\ pc' = "load_try"
                 /\ depth' = depth + 1
                 /\ args' = CHOOSE q \in Queries : q # args
                 /\ UNCHANGED outcome
            ELSE /\ IF refreshRet' = "False"
                    THEN LoadEnd(Raised(history[Len(history)].out.type,
                                        history[Len(history)].out.eargs))
                    ELSE LoadEnd(Raised("RefreshError", <<>>))
                 /\ UNCHANGED args
    /\ UNCHANGED <<pathExists, request, ctor, entry>>
    /\ UNCHANGED <<initVars, popVars>>

\* if self._refresh_credentials(): return self.load(*args, **kwargs)
\* raise error
LoadExcept ==
    /\ pc = "load_except"
    /\ \E ok \in BOOLEAN, tok \in Tokens :
         /\ RefreshCredentials(ok, tok)
         /\ history' = Append(history, RefreshEvent(refreshRet'))
         /\ IF refreshRet' = "True"
            THEN /\ depth < MaxDepth
                 /\ pc' = "load_try"
                 /\ depth' = depth + 1
                 /\ args' = args
                 /\ UNCHANGED outcome
            ELSE /\ IF refreshRet' = "False"
                    THEN LoadEnd(Raised(Handled.type, Handled.eargs))
                    ELSE LoadEnd(Raised("RefreshError", <<>>))
                 /\ UNCHANGED args
    /\ UNCHANGED <<pathExists, request, ctor, entry>>
    /\ UNCHANGED <<initVars, popVars>>

\* a direct call of Datacube._refresh_credentials
CallRefresh ==
    /\ pc = "ready"
    /\ \E ok \in BOOLEAN, tok \in Tokens :
         /\ RefreshCredentials(ok, tok)
         /\ outcome' = IF refreshRet' = "raised" THEN Raised("RefreshError", <<>>)
                       ELSE Returned(refreshRet')
    /\ entry' = [environ |-> environ, credentials |-> credentials]
    /\ history' = <<>>
    /\ UNCHANGED <<pc, pathExists, request, ctor, args, depth>>
    /\ UNCHANGED <<initVars, popVars>>

----
\* the other modules' state, where a specification does not use it
IdleInit == kwargs = <<>> /\ flags = <<>> /\ cmds = <<>>
IdlePop == fs = {} /\ path = <<>> /\ runs = <<>>

\* earthengine.py is imported: CURL_CA_BUNDLE gets its default when not set
EnvAtImport(pre) ==
    [k \in EnvKeys |->
        IF k = "CURL_CA_BUNDLE"
        THEN IF pre[k] \in {"unset", ""} THEN CA_BUNDLE_DEFAULT ELSE pre[k]
        ELSE pre[k]]

InitDC ==
    /\ pc = "import"
    /\ pathExists \in BOOLEAN
    /\ \E ca \in {"unset", "", "/custom/ca.crt"}, bearer \in {"unset", "stale"} :
         environ = EnvAtImport([k \in EnvKeys |->
                      IF k = "CURL_CA_BUNDLE" THEN ca
                      ELSE IF k = "EEDA_BEARER" THEN bearer ELSE "unset"])
    /\ credentials = [kind |-> "unset", token |-> "None"]
    /\ request = "unset"
    /\ ctor = CtorZero
    /\ args = "none"
    /\ depth = 0
    /\ history = <<>>
    /\ refreshRet = "none"
    /\ outcome = NoOutcome
    /\ entry = [environ |-> environ, credentials |-> credentials]
    /\ IdleInit
    /\ IdlePop

NextDC ==
    \/ CtorImport
    \/ CtorBranch
    \/ CtorServiceAccountCredentials
    \/ CtorServiceAccountInitialize
    \/ CtorAuthenticate
    \/ CtorInitialize
    \/ CtorGetPersistentCredentials
    \/ CtorRequest
    \/ CtorRefresh
    \/ CtorSuperInit
    \/ \E q \in Queries : CallLoad(q)
    \/ LoadTry
    \/ LoadExcept
    \/ CallRefresh

SpecDC == InitDC /\ [][NextDC]_vars

----
\* Properties of Datacube (earthengine.py)

EngineCalls == SelectSeq(history, LAMBDA e : e.ev = "engine")
RefreshCalls == SelectSeq(history, LAMBDA e : e.ev = "refresh")
LoadDone == pc = "ready" /\ history # <<>>
InLoad == pc \in {"load_try", "load_except"}
Constructed == pc \in {"ready", "load_try", "load_except"}
\* a load or a direct refresh was called on the constructed object
CallMade == InLoad \/ (pc = "ready" /\ outcome # NoOutcome)
\* an I/O error whose message carries the marker
IsAuthFailure(o) ==
    /\ o.kind = "raise"
    /\ o.type = "RasterioIOError"
    /\ Len(o.eargs) > 0
    /\ \E i \in DOMAIN o.eargs[1] : o.eargs[1][i] = Marker
LastEvent == history[Len(history)]

\* C1: a load whose engine call fails with anything but a marked I/O error
\* raises that same error, returns nothing, and that frame makes no refresh call
C1_OtherFailurePropagates ==
    (/\ LoadDone
     /\ LastEvent.ev = "engine"
     /\ LastEvent.out.kind = "raise"
     /\ ~IsAuthFailure(LastEvent.out))
    => outcome = Raised(LastEvent.out.type, LastEvent.out.eargs)

\* C2: in interactive mode, with every engine call failing with the marker and
\* every refresh succeeding, load stops retrying after a bounded number of
\* retries (the documented cap is one retry: two engine calls)
C2_RetriesAreCapped ==
    (/\ Constructed
     /\ request = "Request"
     /\ \A i \in DOMAIN EngineCalls : IsAuthFailure(EngineCalls[i].out)
     /\ \A j \in DOMAIN RefreshCalls : RefreshCalls[j].arg = "True")
    => Len(EngineCalls) <= 2

\* C3: interactive mode, first engine call fails with the marker, second
\* succeeds: load returns the second result, the retry has the same arguments,
\* and exactly one refresh lies between the two engine calls
C3_Pre ==
    /\ LoadDone
    /\ request = "Request"
    /\ Len(EngineCalls) >= 2
    /\ IsAuthFailure(EngineCalls[1].out)
    /\ EngineCalls[2].out.kind = "ok"
C3_RefreshAndRetryOnce ==
    C3_Pre =>
        /\ Len(EngineCalls) = 2
        /\ Len(RefreshCalls) = 1
        /\ history = <<EngineCalls[1], RefreshEvent("True"), EngineCalls[2]>>
        /\ EngineCalls[2].arg = EngineCalls[1].arg
        /\ EngineCalls[1].arg = args
        /\ outcome = Returned(EngineCalls[2].out.eargs[1])
C3_Witness == C3_Pre /\ outcome.kind = "returned"

\* C4: service-account mode, engine fails with the marker: load raises that
\* error unchanged and the engine was called exactly once
C4_Pre ==
    /\ LoadDone
    /\ request = "None"
    /\ IsAuthFailure(history[1].out)
C4_ServiceAccountNoRetry ==
    C4_Pre =>
        /\ Len(EngineCalls) = 1
        /\ outcome = Raised(history[1].out.type, history[1].out.eargs)
        /\ history = <<history[1], RefreshEvent("False")>>
C4_Witness == C4_Pre /\ outcome.kind = "raised"

\* C5: first engine call succeeds: load returns the engine's result, one engine
\* call, no refresh, EEDA_BEARER, the rest of environ and the credential unchanged
C5_Pre ==
    /\ LoadDone
    /\ history[1].out.kind = "ok"
C5_SuccessIsPassedThrough ==
    C5_Pre =>
        /\ outcome = Returned(history[1].out.eargs[1])
        /\ Len(EngineCalls) = 1
        /\ Len(RefreshCalls) = 0
        /\ environ = entry.environ
        /\ credentials = entry.credentials
C5_Witness == C5_Pre /\ request = "Request" /\ outcome.kind = "returned"

\* C6: the key-file path alone selects the mode: path exists => Authenticate
\* never called and request never a Request; path missing => the service
\* account constructor never called, Authenticate called once construction
\* is past that line; after a successful construction request is a Request
\* exactly when the path is missing
PastAuthenticate ==
    pc \notin {"import", "branch", "authenticate"}
      /\ ~(pc = "ctor_raised" /\ outcome.type = "import_module")
C6_ModeFromKeyFile ==
    /\ pathExists => (ctor.Authenticate = 0 /\ request # "Request"
                         /\ ctor.get_persistent_credentials = 0)
    /\ ~pathExists => (ctor.ServiceAccountCredentials = 0 /\ request # "None")
    /\ (~pathExists /\ PastAuthenticate) => ctor.Authenticate = 1
    /\ Constructed => /\ request \in {"None", "Request"}
                      /\ request = "Request" <=> ~pathExists
                      /\ request = "Request" <=> credentials.kind = "persistent"
                      /\ request = "None" <=> credentials.kind = "service"
C6_Witness == pc = "ready" /\ pathExists /\ request = "None"

\* C7: with no refresh handle, _refresh_credentials returns False, never
\* raises, and changes neither the credential nor any environ value
C7_NoHandleNoEffect ==
    (CallMade /\ request = "None") =>
        /\ refreshRet \in {"none", "False"}
        /\ \A i \in DOMAIN RefreshCalls : RefreshCalls[i].arg = "False"
        /\ environ = entry.environ
        /\ credentials = entry.credentials
        /\ environ["EEDA_BEARER"] \notin Tokens
        /\ (pc = "ready" /\ history = <<>> /\ outcome # NoOutcome)
              => outcome = Returned("False")
C7_Witness ==
    /\ pc = "ready" /\ request = "None" /\ history = <<>>
    /\ refreshRet = "False" /\ outcome = Returned("False")

\* C9: interactive construction refreshes exactly once, after credentials and
\* request are stored and before super().__init__, so EEDA_BEARER holds the
\* credential's token before any load; a failing step ends construction at
\* once, nothing is called twice, and super().__init__ is then never called
AcquisitionFailed ==
    pc = "ctor_raised" /\ outcome.type # "datacube.Datacube.__init__"
C9_RefreshOnceBeforeClient ==
    /\ \A c \in DOMAIN ctor : ctor[c] <= 1
    /\ ctor.refresh = 1 => /\ ~pathExists
                           /\ credentials.kind = "persistent"
                           /\ request = "Request"
                           /\ ctor.Authenticate = 1
                           /\ ctor.get_persistent_credentials = 1
    /\ (~pathExists /\ ctor.superInit = 1) =>
            /\ ctor.refresh = 1
            /\ credentials.token \in Tokens
            /\ environ["EEDA_BEARER"] = credentials.token
    /\ (~pathExists /\ Constructed) =>
            /\ ctor.refresh = 1
            /\ ctor.superInit = 1
            /\ credentials.token \in Tokens
            /\ environ["EEDA_BEARER"] = credentials.token
    /\ AcquisitionFailed => ctor.superInit = 0
    /\ (pc = "ctor_raised") => (depth = 0 /\ history = <<>>)
C9_Witness ==
    /\ pc = "ready" /\ ~pathExists /\ ctor.refresh = 1 /\ ctor.superInit = 1
    /\ outcome = NoOutcome

----
\* odc_colab.py: odc_colab_init

UserKeys == {"DATACUBE_CONFIG_PATH", "DATACUBE_DB_URL", "AWS_NO_SIGN_REQUEST", "USER_VAR"}
UserValue(k) == IF k = "AWS_NO_SIGN_REQUEST" THEN "NO" ELSE "user"

\* a dict is a function on its keys
DictUpdate(d, e) ==
    [k \in DOMAIN d \cup DOMAIN e |-> IF k \in DOMAIN e THEN e[k] ELSE d[k]]
DictDel(d, key) == [k \in DOMAIN d \ {key} |-> d[k]]

\* env = {...}: the default values
DefaultEnv ==
    [k \in {"AWS_NO_SIGN_REQUEST", "CURL_CA_BUNDLE"} |->
        IF k = "AWS_NO_SIGN_REQUEST" THEN "YES" ELSE CA_BUNDLE_DEFAULT]

\* for key, var in env.items(): environ[key] = var
SetEnviron(env) ==
    environ' = [k \in EnvKeys |-> IF k \in DOMAIN env THEN env[k] ELSE environ[k]]

\* the call raises
InitRaise(type) ==
    /\ pc' = "raised"
    /\ outcome' = Raised(type, <<>>)

\* "Set environment variables": the default dict, the deletion of
\* DATACUBE_DB_URL when DATACUBE_CONFIG_PATH was passed, the merge, the loop
InitSetEnv ==
    /\ pc = "env"
    /\ IF "DATACUBE_CONFIG_PATH" \in DOMAIN kwargs
       THEN IF "DATACUBE_DB_URL" \in DOMAIN DefaultEnv
            THEN /\ SetEnviron(DictUpdate(DictDel(DefaultEnv, "DATACUBE_DB_URL"), kwargs))
                 /\ pc' = "config"
                 /\ UNCHANGED outcome
            ELSE /\ InitRaise("KeyError")
                 /\ UNCHANGED environ
       ELSE /\ SetEnviron(DictUpdate(DefaultEnv, kwargs))
            /\ pc' = "config"
            /\ UNCHANGED outcome
    /\ UNCHANGED <<initVars, dcVars, popVars>>

\* _dc_config_present(use_defaults); confExists: the file DATACUBE_CONFIG_PATH
\* names exists; defaultExists: a config file is at a default location
DcConfigPresent(confExists, defaultExists) ==
    \/ flags.use_defaults
    \/ environ["DATACUBE_DB_URL"] # "unset"
    \/ (environ["DATACUBE_CONFIG_PATH"] # "unset" /\ confExists)
    \/ defaultExists

\* if not _dc_config_present(use_defaults): print the warning
InitConfigCheck ==
    /\ pc = "config"
    /\ \E confExists \in BOOLEAN, defaultExists \in BOOLEAN :
         cmds' = IF DcConfigPresent(confExists, defaultExists)
                 THEN cmds ELSE Append(cmds, "print Warning")
    /\ pc' = "pip"
    /\ UNCHANGED <<environ, outcome, kwargs, flags, dcVars, popVars>>

\* the commands cs are run in order; bad = 0: all succeed and the call goes
\* on at nxt; bad = k > 0: the k-th raises CalledProcessError out of the call
RunAll(cs, bad, nxt) ==
    IF bad = 0
    THEN /\ cmds' = cmds \o cs
         /\ pc' = nxt
         /\ UNCHANGED outcome
    ELSE /\ cmds' = cmds \o SubSeq(cs, 1, bad)
         /\ InitRaise("CalledProcessError")

\* _pip_install('pip', '--upgrade'); if install_datacube: _pip_install('datacube==1.8.3')
InitPip ==
    /\ pc = "pip"
    /\ LET cs == <<"pip install --upgrade pip">>
                  \o (IF flags.install_datacube
                      THEN <<"pip install datacube==1.8.3">> ELSE <<>>)
       IN \E bad \in 0..Len(cs) : RunAll(cs, bad, "ceos")
    /\ UNCHANGED <<environ, kwargs, flags, dcVars, popVars>>

\* if install_ceos_utils: _check_git_install('utils', ...), xarray, the two mkdir
InitCeosUtils ==
    /\ pc = "ceos"
    /\ \E found \in BOOLEAN :
         LET cs == IF flags.install_ceos_utils
                   THEN (IF found THEN <<>> ELSE <<"git clone data_cube_utilities utils">>)
                        \o <<"pip install --upgrade xarray>=0.16.1",
                              "mkdir -p /content/output",
                              "mkdir -p /content/geotiffs">>
                   ELSE <<>>
         IN \E bad \in 0..Len(cs) : RunAll(cs, bad, "postgresql")
    /\ UNCHANGED <<environ, kwargs, flags, dcVars, popVars>>

\* the commands of the try block that starts PostgreSQL
StartPostgresql ==
    <<"service postgresql start", "createuser -s root">>
    \o (IF flags.install_datacube THEN <<"createdb -O root datacube">> ELSE <<>>)

\* if install_postgresql: _check_apt_install('postgresql'), then the service is
\* started when not running; an exception of the start block is printed
InitPostgresql ==
    /\ pc = "postgresql"
    /\ IF ~flags.install_postgresql
       THEN pc' = "odc_gee" /\ UNCHANGED <<cmds, outcome>>
       ELSE \E found \in BOOLEAN, aptOk \in BOOLEAN, running \in BOOLEAN,
               bad \in 0..Len(StartPostgresql) :
              LET apt == <<"dpkg -l">>
                         \o (IF found THEN <<>>
                             ELSE <<"apt-get update", "apt-get install postgresql">>)
                  start == IF running THEN <<>>
                           ELSE IF bad = 0 THEN StartPostgresql
                           ELSE SubSeq(StartPostgresql, 1, bad) \o <<"print error">>
              IN IF ~found /\ ~aptOk
                 THEN /\ cmds' = cmds \o apt
                      /\ InitRaise("CalledProcessError")
                 ELSE /\ cmds' = cmds \o apt \o start
                      /\ pc' = "odc_gee"
                      /\ UNCHANGED outcome
    /\ UNCHANGED <<environ, kwargs, flags, dcVars, popVars>>

\* if install_odc_gee: clone and install odc-gee, link it, _patch_schema(),
\* datacube system init
InitOdcGee ==
    /\ pc = "odc_gee"
    /\ \E gitFound \in BOOLEAN, pipFound \in BOOLEAN :
         LET cs == IF flags.install_odc_gee
                   THEN (IF gitFound THEN <<>> ELSE <<"git clone odc-gee">>)
                        \o (IF pipFound THEN <<>> ELSE <<"pip install -e odc-gee">>)
                        \o <<"ln -sf odc_gee python3.6", "ln -sf odc_gee python3.7",
                              "_patch_schema", "datacube system init">>
                   ELSE <<>>
         IN \E bad \in 0..Len(cs) : RunAll(cs, bad, "done")
    /\ UNCHANGED <<environ, kwargs, flags, dcVars, popVars>>

\* the state of the Datacube part, where a specification does not use it
IdleDC ==
    /\ pathExists = FALSE
    /\ credentials = [kind |-> "unset", token |-> "None"]
    /\ request = "unset"
    /\ ctor = CtorZero
    /\ args = "none"
    /\ depth = 0
    /\ history = <<>>
    /\ refreshRet = "none"
    /\ entry = [environ |-> environ, credentials |-> credentials]

InitOdc ==
    /\ pc = "env"
    /\ \E keys \in SUBSET UserKeys : kwargs = [k \in keys |-> UserValue(k)]
    /\ flags \in [install_datacube : BOOLEAN, install_ceos_utils : BOOLEAN,
                   install_postgresql : BOOLEAN, install_odc_gee : BOOLEAN,
                   use_defaults : BOOLEAN]
    /\ cmds = <<>>
    /\ \E url \in {"unset", "preset"} :
         environ = [k \in EnvKeys |-> IF k = "DATACUBE_DB_URL" THEN url ELSE "unset"]
    /\ outcome = NoOutcome
    /\ IdleDC
    /\ IdlePop

NextOdc ==
    \/ InitSetEnv
    \/ InitConfigCheck
    \/ InitPip
    \/ InitCeosUtils
    \/ InitPostgresql
    \/ InitOdcGee

SpecOdc == InitOdc /\ [][NextOdc]_vars

\* C8: with DATACUBE_CONFIG_PATH among the kwargs the call does not fail at
\* the environment step: the variable and the defaults are set in environ,
\* DATACUBE_DB_URL is not set by the call, and the call goes on to the install
\* steps; no install command runs before the user's variables are set
C8_ConfigPathAccepted ==
    ("DATACUBE_CONFIG_PATH" \in DOMAIN kwargs /\ pc # "env") =>
        /\ ~(pc = "raised" /\ outcome.type = "KeyError")
        /\ \A k \in DOMAIN kwargs : environ[k] = kwargs[k]
        /\ \A k \in DOMAIN DefaultEnv \ DOMAIN kwargs : environ[k] = DefaultEnv[k]
        /\ "DATACUBE_DB_URL" \notin DOMAIN kwargs
              => environ["DATACUBE_DB_URL"] = entry.environ["DATACUBE_DB_URL"]

----
\* odc_colab.py: populate_db
\* A file name is the sequence of its dot-separated parts: db_dump.tar.xz is
\* <<"db_dump", "tar", "xz">>.  An entry of fs is [dir, name, kind]; the
\* directories are the working directory "cwd", another directory "other",
\* and "dump", the inside of the directory the path names when it is one.

DefaultDump == <<"db_dump", "tar", "xz">>
DumpNames == {DefaultDump, <<"database">>, <<"db", "dat", "tar", "xz">>,
              <<"db", "dat", "v1", "tar", "xz">>, <<"db", "sql", "v1", "tar", "xz">>,
              <<"db", "lock">>}
\* the stems of the split files, in sorted order
PartStems == <<"db_dump000", "db_dump001">>
PartNames == {<<PartStems[i], "part">> : i \in DOMAIN PartStems}
\* what the archive holds
Archive == {<<"restore", "sql">>, <<"toc", "dat">>}

File(d, n) == [dir |-> d, name |-> n, kind |-> "file"]
Exists(f, d, n) == \E e \in f : e.dir = d /\ e.name = n
IsDir(f, d, n) == \E e \in f : e.dir = d /\ e.name = n /\ e.kind = "dir"

\* PurePath.with_suffix: the last part is the suffix when there are two or more
WithSuffix(name, suffix) ==
    IF Len(name) >= 2 THEN SubSeq(name, 1, Len(name) - 1) \o suffix
    ELSE name \o suffix

\* path.with_suffix('').with_suffix('').with_suffix('.lock')
LockName(name) == WithSuffix(WithSuffix(WithSuffix(name, <<>>), <<>>), <<"lock">>)

\* '.ext' in f
Contains(name, ext) == \E i \in 2..Len(name) : name[i] = ext

\* Path.touch()
Touch(f, d, n) == IF Exists(f, d, n) THEN f ELSE f \cup {File(d, n)}

\* part_files[0].split('.')[0][:-3]
CombinedName(part) ==
    IF \E i \in DOMAIN PartStems : part[1] = PartStems[i] THEN <<"db_dump">> ELSE <<"">>

\* _combine_split_files: the files of the directory with '.part' in the name
PartFiles(f) == {e \in f : e.dir = "dump" /\ Contains(e.name, "part")}
\* part_files.sort(); part_files[0]
SortKey(name) == CHOOSE i \in DOMAIN PartStems : PartStems[i] = name[1]
FirstPart(f) == (CHOOSE e \in PartFiles(f) :
                   \A o \in PartFiles(f) : SortKey(e.name) <= SortKey(o.name)).name
CombineSplitFiles(f) ==
    IF PartFiles(f) # {} THEN f \cup {File("dump", CombinedName(FirstPart(f)))} ELSE f

\* the files cleanup removes: those of the working directory with '.dat' or
\* '.sql' in the name
CleanupSet(f) ==
    {e \in f : e.dir = "cwd" /\ (Contains(e.name, "dat") \/ Contains(e.name, "sql"))}

\* the record of one call: path.exists() was reached and true, the lock was
\* found, the extract-and-load steps were entered, psql runs, how it ended
Run(existed, locked, entered, psql, result) ==
    [existed |-> existed, locked |-> locked, entered |-> entered,
     psql |-> psql, result |-> result]

\* the body under "if not <lock>.exists()", run on the file system f0 for the
\* path named n in directory d
Populate(f0, d, n) ==
    LET f1 == Touch(f0, d, LockName(n))
        isdir == IsDir(f1, d, n)
        f2 == IF isdir THEN CombineSplitFiles(f1) ELSE f1
        \* path.parent after "path = _combine_split_files(path) if path.is_dir() else path"
        parent == IF isdir /\ PartFiles(f1) # {} THEN "dump" ELSE d
    IN IF isdir /\ PartFiles(f1) = {}
       THEN \* tarfile.open on a directory
            fs' = f2 /\ runs' = Append(runs, Run(TRUE, FALSE, TRUE, 0, "IsADirectoryError"))
       ELSE \E tarOk \in BOOLEAN :
            IF ~tarOk
            THEN fs' = f2 /\ runs' = Append(runs, Run(TRUE, FALSE, TRUE, 0, "ReadError"))
            ELSE LET f3 == f2 \cup {File(parent, a) : a \in Archive}
                     sql == {e \in f3 : e.dir = parent /\ Contains(e.name, "sql")}
                     clean == CleanupSet(f3)
                 IN \/ \* a file of sql_files fails, in the rewrite or in psql
                       \E done \in SUBSET {e \in sql : e.kind = "file"} :
                       \E bad \in sql \ done :
                       \E inPsql \in BOOLEAN :
                          /\ inPsql => bad.kind = "file"
                          /\ fs' = f3
                          /\ runs' = Append(runs,
                                Run(TRUE, FALSE, TRUE,
                                    Cardinality(done) + (IF inPsql THEN 1 ELSE 0),
                                    IF inPsql THEN "CalledProcessError" ELSE "OSError in rewrite"))
                    \/ \* every file is loaded; cleanup removes, in listing
                       \* order, until it meets a directory
                       /\ \A e \in sql : e.kind = "file"
                       /\ IF \A e \in clean : e.kind = "file"
                          THEN /\ fs' = f3 \ clean
                               /\ runs' = Append(runs,
                                     Run(TRUE, FALSE, TRUE, Cardinality(sql), "ok"))
                          ELSE \E gone \in SUBSET {e \in clean : e.kind = "file"} :
                               /\ fs' = f3 \ gone
                               /\ runs' = Append(runs,
                                     Run(TRUE, FALSE, TRUE, Cardinality(sql),
                                         "IsADirectoryError"))

\* populate_db(path), after "if not path: path = _download_db()"
PopulateAt(f0, d, n) ==
    IF Exists(f0, d, n)
    THEN IF ~Exists(f0, d, LockName(n))
         THEN Populate(f0, d, n)
         ELSE fs' = f0 /\ runs' = Append(runs, Run(TRUE, TRUE, FALSE, 0, "skipped"))
    ELSE fs' = f0 /\ runs' = Append(runs, Run(FALSE, FALSE, FALSE, 0, "OSError"))

\* populate_db(path=None)
PopulateDb ==
    /\ pc = "idle"
    /\ Len(runs) < MaxCalls
    /\ IF path.kind = "None"
       THEN \E ok \in BOOLEAN :
            IF ok THEN PopulateAt(Touch(fs, "cwd", DefaultDump), "cwd", DefaultDump)
            ELSE fs' = fs /\ runs' = Append(runs,
                     Run(FALSE, FALSE, FALSE, 0, "URLError"))
       ELSE PopulateAt(fs, path.dir, path.name)
    /\ UNCHANGED <<pc, environ, outcome, path, dcVars, initVars>>

InitPop ==
    /\ pc = "idle"
    /\ \/ path = [dir |-> "cwd", name |-> DefaultDump, kind |-> "None"] /\ fs = {}
       \/ /\ path \in [dir : {"cwd", "other"}, name : DumpNames,
                        kind : {"file", "dir", "missing"}]
          /\ \E parts \in SUBSET PartNames :
               fs = IF path.kind = "missing" THEN {}
                    ELSE {[dir |-> path.dir, name |-> path.name, kind |-> path.kind]}
                         \cup (IF path.kind = "dir"
                               THEN {File("dump", q) : q \in parts} ELSE {})
    /\ runs = <<>>
    /\ environ = [k \in EnvKeys |-> "unset"]
    /\ outcome = NoOutcome
    /\ kwargs = <<>> /\ flags = <<>> /\ cmds = <<>>
    /\ IdleDC

NextPop == PopulateDb

SpecPop == InitPop /\ [][NextPop]_vars

\* C10: calls of populate_db on one existing path enter the extract-and-load
\* steps at most once: the first such call creates the lock before extracting,
\* every later call on the still existing path finds the lock and skips
\* without running psql, also after a failed first call; a call on a missing
\* path raises OSError and creates no lock
C10_PopulatedAtMostOnce ==
    /\ Cardinality({i \in DOMAIN runs : runs[i].entered}) <= 1
    /\ \A i \in DOMAIN runs : \A j \in DOMAIN runs :
          (i < j /\ runs[i].entered /\ runs[j].existed) =>
              (runs[j].result = "skipped" /\ runs[j].psql = 0)
    /\ \A i \in DOMAIN runs :
          ~runs[i].existed => /\ runs[i].result \in {"OSError", "URLError"}
                              /\ ~runs[i].entered

====
